---- MODULE Spec2Model ----
(***************************************************************************)
(* Model of package projgeom (proj.go): construction of a                  *)
(* CoordinateTransform from two spatial references, reprojection of a      *)
(* geometry through the dispatcher, and ReadPrj.                           *)
(*                                                                         *)
(* Go strings that the code inspects (Proj4 text) are sequences of         *)
(* one-character strings, so strings.Contains is a real substring search.  *)
(* Collaborator calls (gdal, proj, the per-shape handlers) are recorded in *)
(* call logs, in the order the code makes them.                            *)
(***************************************************************************)
EXTENDS Integers, Sequences, FiniteSets, TLC

\* ---------------------------------------------------------------- bounds
MaxPts == 2
MaxRings == 2
MaxPolys == 2

\* ---------------------------------------------------------------- errors
\* A Go error value; Error() is the msg field.  Nil is the nil error.
Nil == [kind |-> "nil", msg |-> ""]

\* The value gdal hands back for OGRERR_NONE; its Error() is "No Error".
NoErrorSentinel == [kind |-> "OGRErr", msg |-> "No Error"]

ErrorText(e) == e.msg

\* &UnsupportedGeometryError{reflect.TypeOf(g)}
UnsupportedGeometryError(t) == [kind |-> "UnsupportedGeometryError", msg |-> t]

\* ---------------------------------------------------------------- Proj4 text
T_longlat == <<"l", "o", "n", "g", "l", "a", "t">>
T_latlong == <<"l", "a", "t", "l", "o", "n", "g">>
T_wgs84 == <<"+", "p", "r", "o", "j", "=", "l", "o", "n", "g", "l", "a", "t">>
T_wgs84alt == <<"+", "p", "r", "o", "j", "=", "l", "a", "t", "l", "o", "n", "g">>
T_nad83 == <<"+", "l", "a", "t", "l", "o", "n", "g", "+", "n", "a", "d", "8", "3">>
T_utm == <<"+", "p", "r", "o", "j", "=", "u", "t", "m">>
T_lcc == <<"+", "p", "r", "o", "j", "=", "l", "c", "c">>
T_bogus == <<"+", "p", "r", "o", "j", "=", "b", "o", "g", "u", "s">>
T_badellps == <<"+", "p", "r", "o", "j", "=", "l", "o", "n", "g", "l", "a", "t", "+", "e", "l", "l", "p", "s", "=", "b", "o", "g", "u", "s">>
T_empty == << >>

\* strings.HasPrefix(s[i:], sub) for a 1-based offset i
HasPrefixAt(s, sub, i) ==
  /\ i + Len(sub) - 1 <= Len(s)
  /\ \A k \in 1..Len(sub) : s[i + k - 1] = sub[k]

RECURSIVE IndexFrom(_, _, _)
\* strings.Index, scanning left to right from offset i; 0 when absent
IndexFrom(s, sub, i) ==
  IF i + Len(sub) - 1 > Len(s) THEN 0
  ELSE IF HasPrefixAt(s, sub, i) THEN i
  ELSE IndexFrom(s, sub, i + 1)

\* strings.Contains(s, sub)
Contains(s, sub) == IndexFrom(s, sub, 1) # 0

\* ---------------------------------------------------------------- gdal.SpatialReference
\* crs: what IsSame compares; proj4/toProj4Err: what ToProj4 returns.
SR(crs, proj4, e) == [crs |-> crs, proj4 |-> proj4, toProj4Err |-> e]

SpatialRefs ==
  { SR("EPSG:4326", T_wgs84, Nil),
    SR("EPSG:4326", T_wgs84alt, NoErrorSentinel),
    SR("EPSG:4269", T_nad83, NoErrorSentinel),
    SR("EPSG:26915", T_utm, NoErrorSentinel),
    SR("ESRI:102004", T_lcc, Nil),
    SR("unsupported", T_empty, [kind |-> "OGRErr", msg |-> "Unsupported SRS"]),
    SR("bogus", T_bogus, Nil),
    SR("badellps", T_badellps, NoErrorSentinel) }

\* src.IsSame(dst)
IsSame(a, b) == a.crs = b.crs

\* src.ToProj4()
ToProj4(sr) == [text |-> sr.proj4, err |-> sr.toProj4Err]

\* ---------------------------------------------------------------- proj.Proj
\* A nil *proj.Proj
NilProj == [def |-> T_empty, open |-> FALSE]

\* proj.NewProj(definition): an opened handle, or an error of the engine
NewProj(def) ==
  IF def = T_empty
    THEN [h |-> NilProj, err |-> [kind |-> "proj", msg |-> "no arguments in initialization list"]]
  ELSE IF Contains(def, <<"e", "l", "l", "p", "s", "=", "b", "o", "g", "u", "s">>)
    THEN [h |-> NilProj, err |-> [kind |-> "proj", msg |-> "unknown elliptical parameter name"]]
  ELSE IF Contains(def, <<"b", "o", "g", "u", "s">>)
    THEN [h |-> NilProj, err |-> [kind |-> "proj", msg |-> "unknown projection id"]]
  ELSE [h |-> [def |-> def, open |-> TRUE], err |-> Nil]

\* ---------------------------------------------------------------- CoordinateTransform
\* A nil *CoordinateTransform: what a caller holds before construction.
NilCT ==
  [allocated |-> FALSE, src |-> NilProj, dst |-> NilProj, sameProj |-> FALSE,
   inputDegrees |-> FALSE, outputDegrees |-> FALSE]

\* new(CoordinateTransform): allocated, every field zero
ZeroCT == [NilCT EXCEPT !.allocated = TRUE]

\* One entry of the log of collaborator calls made by NewCoordinateTransform
Call(fn, side, e) == [fn |-> fn, side |-> side, err |-> e]

\* Variant: the "No Error" value is not recognised.
IsFatal_NoSentinel(e) == e # Nil

\* the guard of both "return" statements after ToProj4
IsFatal(e) == e # Nil /\ ErrorText(e) # "No Error"

\* Variant: only "longlat" is looked for.
UsesDegrees_LonglatOnly(p) == Contains(p, T_longlat)

\* strings.Contains(p, "longlat") || strings.Contains(p, "latlong")
UsesDegrees(p) == Contains(p, T_longlat) \/ Contains(p, T_latlong)

\* The source side of the setup (ToProj4, unit flag, NewProj).  ret is TRUE
\* when the code has reached a "return" statement.
SetupSrc(ct0, c0, src) ==
  LET s == ToProj4(src)
      c1 == Append(c0, Call("ToProj4", "src", s.err))
  IN
  IF IsFatal(s.err) THEN [ct |-> ct0, err |-> s.err, calls |-> c1, ret |-> TRUE]
  ELSE
    LET ct1 == [ct0 EXCEPT !.inputDegrees = UsesDegrees(s.text)]
        ps == NewProj(s.text)
        ct2 == [ct1 EXCEPT !.src = ps.h]
        c2 == Append(c1, Call("NewProj", "src", ps.err))
    IN [ct |-> ct2, err |-> ps.err, calls |-> c2, ret |-> ps.err # Nil]

\* The destination side of the setup, followed by the final "return".
SetupDst(ct2, c2, dst) ==
  LET d == ToProj4(dst)
      c3 == Append(c2, Call("ToProj4", "dst", d.err))
  IN
  IF IsFatal(d.err) THEN [ct |-> ct2, err |-> d.err, calls |-> c3, ret |-> TRUE]
  ELSE
    LET ct3 == [ct2 EXCEPT !.outputDegrees = UsesDegrees(d.text)]
        pd == NewProj(d.text)
        ct4 == [ct3 EXCEPT !.dst = pd.h]
        c4 == Append(c3, Call("NewProj", "dst", pd.err))
    IN [ct |-> ct4, err |-> pd.err, calls |-> c4, ret |-> TRUE]

\* new(CoordinateTransform) with sameProj = src.IsSame(dst)
FreshCT(src, dst) == [ZeroCT EXCEPT !.sameProj = IsSame(src, dst)]

IsSameCall == << Call("IsSame", "both", Nil) >>

\* Variant: the setup runs even when the references are the same.
NewCoordinateTransform_AlwaysSetup(src, dst) ==
  LET a == SetupSrc(FreshCT(src, dst), IsSameCall, src)
  IN IF a.ret THEN a ELSE SetupDst(a.ct, a.calls, dst)

\* Variant: a failure on the source side does not end the construction.
NewCoordinateTransform_NoAbort(src, dst) ==
  LET ct0 == FreshCT(src, dst)
  IN
  IF ct0.sameProj THEN [ct |-> ct0, err |-> Nil, calls |-> IsSameCall, ret |-> TRUE]
  ELSE LET a == SetupSrc(ct0, IsSameCall, src)
       IN SetupDst(a.ct, a.calls, dst)

\* NewCoordinateTransform(src, dst): the returned (ct, err) and the calls made
NewCoordinateTransform(src, dst) ==
  LET ct0 == FreshCT(src, dst)
  IN
  IF ct0.sameProj THEN [ct |-> ct0, err |-> Nil, calls |-> IsSameCall, ret |-> TRUE]
  ELSE LET a == SetupSrc(ct0, IsSameCall, src)
       IN IF a.ret THEN a ELSE SetupDst(a.ct, a.calls, dst)

\* ---------------------------------------------------------------- geom.T
\* A coordinate pair.  ops is the list of conversions applied to it so far,
\* so a reprojected coordinate records what was done to it and by which handles.
Pt(x, y) == [X |-> x, Y |-> y, ops |-> << >>]

\* the nil geom.T
NilGeom == [type |-> "nil", v |-> << >>]

SupportedTypes == {"Point", "LineString", "MultiLineString", "Polygon", "MultiPolygon"}

UnsupportedTypes == {"PointZ", "PointM", "LineStringZM", "PolygonZ"}

\* 44: inside the domain of every projection; 95: rejected by the engine
Lats == {44, 95}

SeqUpTo(n, S) == UNION { [1..k -> S] : k \in 0..n }

\* the ring j of part i with n points, each point identified by its position
Ring(i, j, n, lat) == [k \in 1..n |-> Pt(100 * i + 10 * j + k, lat)]

Points == { [type |-> "Point", v |-> Pt(111, lat)] : lat \in Lats }

LineStrings ==
  { [type |-> "LineString", v |-> Ring(1, 1, n, lat)] : n \in 0..MaxPts, lat \in Lats }

MultiLineStrings ==
  { [type |-> "MultiLineString", v |-> [j \in 1..Len(s) |-> Ring(1, j, s[j], lat)]] :
      s \in SeqUpTo(MaxRings, 0..MaxPts), lat \in Lats }

Polygons ==
  { [type |-> "Polygon", v |-> [j \in 1..Len(s) |-> Ring(1, j, s[j], lat)]] :
      s \in SeqUpTo(MaxRings, 0..MaxPts), lat \in Lats }

MultiPolygons ==
  { [type |-> "MultiPolygon",
     v |-> [i \in 1..Len(s) |->
              [j \in 1..s[i] |-> Ring(i, j, (i + j) % (MaxPts + 1), lat)]]] :
      s \in SeqUpTo(MaxPolys, 0..MaxRings), lat \in Lats }

Unsupported == { [type |-> t, v |-> Pt(111, 44)] : t \in UnsupportedTypes }

Geometries ==
  {NilGeom} \cup Points \cup LineStrings \cup MultiLineStrings \cup Polygons
    \cup MultiPolygons \cup Unsupported

\* ---------------------------------------------------------------- projection engine
Op(name, src, dst) == [op |-> name, src |-> src.def, dst |-> dst.def]

ApplyOp(p, o) == [p EXCEPT !.ops = Append(@, o)]

\* The engine's transform of one coordinate pair between two handles.
Transform(src, dst, p) ==
  IF ~src.open \/ ~dst.open
    THEN [p |-> p, err |-> [kind |-> "fault", msg |-> "invalid projection handle"]]
  ELSE IF p.Y > 90
    THEN [p |-> p, err |-> [kind |-> "proj", msg |-> "latitude or longitude exceeded limits"]]
  ELSE [p |-> ApplyOp(p, Op("transform", src, dst)), err |-> Nil]

\* The per-coordinate function: degrees to radians, transform, radians to degrees.
projectCoord(p, src, dst, inputDegrees, outputDegrees) ==
  LET a == IF inputDegrees THEN ApplyOp(p, Op("deg2rad", NilProj, NilProj)) ELSE p
      r == Transform(src, dst, a)
  IN IF r.err # Nil THEN r
     ELSE [p |-> IF outputDegrees THEN ApplyOp(r.p, Op("rad2deg", NilProj, NilProj)) ELSE r.p,
           err |-> Nil]

Min(S) == CHOOSE m \in S : \A n \in S : m <= n

\* Gather a sequence of results [v, err]: the values when every one succeeded,
\* otherwise only the first error.
Collect(rs) ==
  LET bad == { i \in 1..Len(rs) : rs[i].err # Nil }
  IN IF bad = {} THEN [v |-> [i \in 1..Len(rs) |-> rs[i].v], err |-> Nil]
     ELSE [v |-> << >>, err |-> rs[Min(bad)].err]

\* a coordinate sequence (the points of a line string or of a ring)
projectCoords(pts, src, dst, inDeg, outDeg) ==
  Collect([k \in 1..Len(pts) |->
             LET r == projectCoord(pts[k], src, dst, inDeg, outDeg)
             IN [v |-> r.p, err |-> r.err]])

\* a sequence of coordinate sequences (line strings of a multi line string, rings)
projectRings(rings, src, dst, inDeg, outDeg) ==
  Collect([j \in 1..Len(rings) |-> projectCoords(rings[j], src, dst, inDeg, outDeg)])

\* One entry of the log of calls made by Reproject
HandlerCall(fn, src, dst, inDeg, outDeg) ==
  [fn |-> fn, src |-> src, dst |-> dst, inputDegrees |-> inDeg, outputDegrees |-> outDeg]

\* The result of a handler: a geometry of the handler's shape, or only the error.
Wrap(type, r, log) ==
  [g |-> IF r.err = Nil THEN [type |-> type, v |-> r.v] ELSE NilGeom, err |-> r.err, calls |-> log]

projectPoint(g, src, dst, inDeg, outDeg) ==
  LET r == projectCoord(g.v, src, dst, inDeg, outDeg)
  IN Wrap("Point", [v |-> r.p, err |-> r.err],
          << HandlerCall("projectPoint", src, dst, inDeg, outDeg) >>)

projectLineString(g, src, dst, inDeg, outDeg) ==
  Wrap("LineString", projectCoords(g.v, src, dst, inDeg, outDeg),
       << HandlerCall("projectLineString", src, dst, inDeg, outDeg) >>)

projectMultiLineString(g, src, dst, inDeg, outDeg) ==
  Wrap("MultiLineString", projectRings(g.v, src, dst, inDeg, outDeg),
       << HandlerCall("projectMultiLineString", src, dst, inDeg, outDeg) >>)

projectPolygon(g, src, dst, inDeg, outDeg) ==
  Wrap("Polygon", projectRings(g.v, src, dst, inDeg, outDeg),
       << HandlerCall("projectPolygon", src, dst, inDeg, outDeg) >>)

projectMultiPolygon(g, src, dst, inDeg, outDeg) ==
  Wrap("MultiPolygon",
       Collect([i \in 1..Len(g.v) |-> projectRings(g.v[i], src, dst, inDeg, outDeg)]),
       << HandlerCall("projectMultiPolygon", src, dst, inDeg, outDeg) >>)

\* ---------------------------------------------------------------- dispatcher
\* the switch on the concrete type, with the default case
Dispatch(g, src, dst, inputDegrees, outputDegrees) ==
  CASE g.type = "Point" ->
         projectPoint(g, src, dst, inputDegrees, outputDegrees)
    [] g.type = "LineString" ->
         projectLineString(g, src, dst, inputDegrees, outputDegrees)
    [] g.type = "MultiLineString" ->
         projectMultiLineString(g, src, dst, inputDegrees, outputDegrees)
    [] g.type = "Polygon" ->
         projectPolygon(g, src, dst, inputDegrees, outputDegrees)
    [] g.type = "MultiPolygon" ->
         projectMultiPolygon(g, src, dst, inputDegrees, outputDegrees)
    [] OTHER ->
         [g |-> NilGeom, err |-> UnsupportedGeometryError(g.type), calls |-> << >>]

\* Variant: the nil geometry is not singled out and reaches the switch.
project_NoNilCheck(g, src, dst, inputDegrees, outputDegrees) ==
  Dispatch(g, src, dst, inputDegrees, outputDegrees)

\* Variant: the PointZ case is enabled and handled as a Point.
project_AcceptsPointZ(g, src, dst, inputDegrees, outputDegrees) ==
  IF g = NilGeom THEN [g |-> NilGeom, err |-> Nil, calls |-> << >>]
  ELSE IF g.type = "PointZ"
    THEN projectPoint(g, src, dst, inputDegrees, outputDegrees)
  ELSE Dispatch(g, src, dst, inputDegrees, outputDegrees)

\* Variant: a Polygon is sent to the handler of MultiLineString.
project_MisroutedPolygon(g, src, dst, inputDegrees, outputDegrees) ==
  IF g = NilGeom THEN [g |-> NilGeom, err |-> Nil, calls |-> << >>]
  ELSE IF g.type = "Polygon"
    THEN projectMultiLineString(g, src, dst, inputDegrees, outputDegrees)
  ELSE Dispatch(g, src, dst, inputDegrees, outputDegrees)

\* project(g, src, dst, inputDegrees, outputDegrees): (geometry, error) and the
\* handler it called, if any.
project(g, src, dst, inputDegrees, outputDegrees) ==
  IF g = NilGeom THEN [g |-> NilGeom, err |-> Nil, calls |-> << >>]
  ELSE Dispatch(g, src, dst, inputDegrees, outputDegrees)

\* One entry of the log for the call of the dispatcher itself
DispatchCall(c) ==
  HandlerCall("project", c.src, c.dst, c.inputDegrees, c.outputDegrees)

\* Variant: the identity transform is not singled out.
Reproject_NoIdentityShortcut(c, g) ==
  LET r == project(g, c.src, c.dst, c.inputDegrees, c.outputDegrees)
  IN [g |-> r.g, err |-> r.err, calls |-> << DispatchCall(c) >> \o r.calls]

\* ct.Reproject(g)
Reproject(c, g) ==
  IF c.sameProj THEN [g |-> g, err |-> Nil, calls |-> << >>]
  ELSE LET r == project(g, c.src, c.dst, c.inputDegrees, c.outputDegrees)
       IN [g |-> r.g, err |-> r.err, calls |-> << DispatchCall(c) >> \o r.calls]

\* ---------------------------------------------------------------- ReadPrj
\* gdal.SpatialReference{}: the zero value
EmptySR == [handle |-> "none", wkt |-> ""]

\* gdal.CreateSpatialReference("")
BlankSR == [handle |-> "created", wkt |-> ""]

WKTs == {"GEOGCS[WGS84]", "PROJCS[UTM15N]", "garbage"}

ReadErrors == {Nil, [kind |-> "io", msg |-> "unexpected EOF"]}

\* the errors sr.FromWKT can return, by content: success is reported as nil or
\* as the "No Error" value, depending on the library
FromWKTErrors(wkt) ==
  IF wkt = "garbage" THEN {[kind |-> "OGRErr", msg |-> "Corrupt Data"]}
  ELSE {Nil, NoErrorSentinel}

\* sr.FromWKT(wkt) with the error e the library reports
FromWKT(sr, wkt, e) ==
  [sr |-> IF e = Nil \/ e = NoErrorSentinel THEN [sr EXCEPT !.wkt = wkt] ELSE sr, err |-> e]

\* Variant: the "No Error" value of FromWKT is returned as it is.
ReadPrj_KeepsSentinel(data, readErr, parseErr) ==
  LET c0 == << "CreateSpatialReference", "ReadAll" >>
  IN IF readErr # Nil THEN [sr |-> EmptySR, err |-> readErr, calls |-> c0]
     ELSE LET p == FromWKT(BlankSR, data, parseErr)
          IN [sr |-> p.sr, err |-> p.err, calls |-> Append(c0, "FromWKT")]

\* ReadPrj(f), where reading f yields (data, readErr) and FromWKT reports parseErr
ReadPrj(data, readErr, parseErr) ==
  LET sr == BlankSR
      c0 == << "CreateSpatialReference", "ReadAll" >>
  IN IF readErr # Nil THEN [sr |-> EmptySR, err |-> readErr, calls |-> c0]
     ELSE LET p == FromWKT(sr, data, parseErr)
              e == IF p.err # Nil /\ ErrorText(p.err) = "No Error" THEN Nil ELSE p.err
          IN [sr |-> p.sr, err |-> e, calls |-> Append(c0, "FromWKT")]

\* ---------------------------------------------------------------- state
VARIABLES
  constructed,  \* NewCoordinateTransform has returned
  newSrc,       \* its src argument
  newDst,       \* its dst argument
  ct,           \* the *CoordinateTransform it returned
  ctErr,        \* the error it returned
  newCalls,     \* the collaborator calls it made, in order
  rpDone,       \* ct.Reproject has returned
  rpIn,         \* its argument
  rpOut,        \* the (geometry, error) it returned
  rpCalls,      \* the dispatcher and handler calls it made
  prjDone,      \* ReadPrj has returned
  prjIn,        \* what reading the stream yields, and what FromWKT reports
  prjOut,       \* the (spatial reference, error) it returned
  prjCalls      \* the collaborator calls it made

vars ==
  << constructed, newSrc, newDst, ct, ctErr, newCalls,
     rpDone, rpIn, rpOut, rpCalls, prjDone, prjIn, prjOut, prjCalls >>

newVars == << constructed, newSrc, newDst, ct, ctErr, newCalls >>

rpVars == << rpDone, rpIn, rpOut, rpCalls >>

prjVars == << prjDone, prjIn, prjOut, prjCalls >>

NoSR == SR("", T_empty, Nil)

Init ==
  /\ constructed = FALSE
  /\ newSrc = NoSR
  /\ newDst = NoSR
  /\ ct = NilCT
  /\ ctErr = Nil
  /\ newCalls = << >>
  /\ rpDone = FALSE
  /\ rpIn = NilGeom
  /\ rpOut = [g |-> NilGeom, err |-> Nil]
  /\ rpCalls = << >>
  /\ prjDone = FALSE
  /\ prjIn = [data |-> "", readErr |-> Nil, parseErr |-> Nil]
  /\ prjOut = [sr |-> EmptySR, err |-> Nil]
  /\ prjCalls = << >>

\* A session makes each of the three calls once: the operations keep no state
\* between calls (a transform is read-only after construction), so one
\* observed call of each, over every input, covers every later call.

\* ct, err := NewCoordinateTransform(src, dst)
DoNewCoordinateTransform ==
  /\ ~constructed
  /\ \E src \in SpatialRefs, dst \in SpatialRefs :
       LET r == NewCoordinateTransform(src, dst) IN
       /\ constructed' = TRUE
       /\ newSrc' = src
       /\ newDst' = dst
       /\ ct' = r.ct
       /\ ctErr' = r.err
       /\ newCalls' = r.calls
  /\ UNCHANGED << rpVars, prjVars >>

\* g2, err := ct.Reproject(g) on the transform the caller holds
DoReproject ==
  /\ ct.allocated
  /\ ~rpDone
  /\ \E g \in Geometries :
       LET r == Reproject(ct, g) IN
       /\ rpDone' = TRUE
       /\ rpIn' = g
       /\ rpOut' = [g |-> r.g, err |-> r.err]
       /\ rpCalls' = r.calls
  /\ UNCHANGED << newVars, prjVars >>

\* sr, err := ReadPrj(f)
DoReadPrj ==
  /\ ~prjDone
  /\ \E data \in WKTs, readErr \in ReadErrors :
       \E parseErr \in FromWKTErrors(data) :
         LET r == ReadPrj(data, readErr, parseErr) IN
         /\ prjDone' = TRUE
         /\ prjIn' = [data |-> data, readErr |-> readErr, parseErr |-> parseErr]
         /\ prjOut' = [sr |-> r.sr, err |-> r.err]
         /\ prjCalls' = r.calls
  /\ UNCHANGED << newVars, rpVars >>

Next == DoNewCoordinateTransform \/ DoReproject \/ DoReadPrj

Spec == Init /\ [][Next]_vars

\* ---------------------------------------------------------------- properties
NonIdentity == constructed /\ ~IsSame(newSrc, newDst)

HandlerCalls == { i \in DOMAIN rpCalls : rpCalls[i].fn # "project" }

\* C1: through a transform built from two references that are the same,
\* Reproject returns its argument itself and a nil error, whatever the
\* argument is, and calls neither the dispatcher nor any handler.
C1_IdentityReturnsInput ==
  (rpDone /\ IsSame(newSrc, newDst)) =>
    /\ rpOut = [g |-> rpIn, err |-> Nil]
    /\ rpCalls = << >>

C1_Witness ==
  /\ rpDone
  /\ IsSame(newSrc, newDst)
  /\ newSrc # newDst
  /\ rpIn.type = "MultiPolygon"
  /\ Len(rpIn.v) = 2

\* C2: through a transform that is not the identity, a non-nil geometry whose
\* type is not one of the five supported ones yields the nil geometry and an
\* UnsupportedGeometryError carrying that type; no handler is called.
C2_UnsupportedRejected ==
  (rpDone /\ ~ct.sameProj /\ rpIn # NilGeom /\ rpIn.type \notin SupportedTypes) =>
    /\ rpOut.g = NilGeom
    /\ rpOut.err = UnsupportedGeometryError(rpIn.type)
    /\ HandlerCalls = {}

C2_Witness ==
  /\ rpDone
  /\ ~ct.sameProj
  /\ ctErr = Nil
  /\ rpIn.type = "PointZ"
  /\ rpOut.err.kind = "UnsupportedGeometryError"

\* C3: Reproject of the nil geometry returns the nil geometry and a nil error,
\* through the identity and through any other transform, and calls no handler.
C3_AbsentGeometry ==
  (rpDone /\ rpIn = NilGeom) =>
    /\ rpOut = [g |-> NilGeom, err |-> Nil]
    /\ HandlerCalls = {}

C3_Witness ==
  /\ rpDone
  /\ rpIn = NilGeom
  /\ ~ct.sameProj
  /\ ctErr = Nil
  /\ Len(rpCalls) = 1

\* C4: when NewCoordinateTransform returns an error, the caller receives no
\* transform (a nil pointer), never a partially initialised one.
C4_AllOrNothing ==
  (constructed /\ ctErr # Nil) => ct = NilCT

\* C5: for references that are not the same, a "No Error" value returned by
\* ToProj4 on either side counts as success: when no side fails otherwise and
\* both handles can be built, the returned error is nil and both handles are
\* set.  The "No Error" value is never the returned error.
C5_SentinelIsSuccess ==
  /\ ( /\ NonIdentity
       /\ NoErrorSentinel \in {newSrc.toProj4Err, newDst.toProj4Err}
       /\ {newSrc.toProj4Err, newDst.toProj4Err} \subseteq {Nil, NoErrorSentinel}
       /\ NewProj(newSrc.proj4).err = Nil
       /\ NewProj(newDst.proj4).err = Nil )
     => ( /\ ctErr = Nil
          /\ ct.src = [def |-> newSrc.proj4, open |-> TRUE]
          /\ ct.dst = [def |-> newDst.proj4, open |-> TRUE] )
  /\ constructed => ErrorText(ctErr) # "No Error"

C5_Witness ==
  /\ NonIdentity
  /\ newSrc.toProj4Err = NoErrorSentinel
  /\ newDst.toProj4Err = NoErrorSentinel
  /\ ctErr = Nil
  /\ ct.src.open
  /\ ct.dst.open

\* C6: when src and dst are the same, the transform is marked identity, no
\* reference is serialized, no handle is built, both unit flags are false and
\* the error is nil; and a transform is marked identity only in that case.
C6_IdentitySkipsSetup ==
  constructed =>
    /\ IsSame(newSrc, newDst) =>
         /\ ct.sameProj
         /\ ct.src = NilProj
         /\ ct.dst = NilProj
         /\ ~ct.inputDegrees
         /\ ~ct.outputDegrees
         /\ ctErr = Nil
         /\ \A i \in DOMAIN newCalls : newCalls[i].fn \notin {"ToProj4", "NewProj"}
    /\ ct.sameProj => IsSame(newSrc, newDst)

C6_Witness ==
  /\ constructed
  /\ IsSame(newSrc, newDst)
  /\ newSrc # newDst
  /\ ct.sameProj

\* C7: ReadPrj returns the zero spatial reference and the read error, without
\* calling FromWKT, when the read fails; otherwise "No Error" from FromWKT
\* becomes a nil error, any other error of FromWKT is returned as it is, and
\* nil stays nil.
C7_ReadPrj ==
  prjDone =>
    /\ prjIn.readErr # Nil =>
         /\ prjOut = [sr |-> EmptySR, err |-> prjIn.readErr]
         /\ \A i \in DOMAIN prjCalls : prjCalls[i] # "FromWKT"
    /\ (prjIn.readErr = Nil /\ prjIn.parseErr.msg = "No Error") =>
         /\ prjOut.err = Nil
         /\ prjOut.sr = [handle |-> "created", wkt |-> prjIn.data]
    /\ (prjIn.readErr = Nil /\ prjIn.parseErr.msg # "No Error") =>
         prjOut.err = prjIn.parseErr

C7_Witness ==
  /\ prjDone
  /\ prjIn.readErr = Nil
  /\ prjIn.parseErr = NoErrorSentinel
  /\ prjOut.err = Nil

\* s occurs in text as a contiguous run of characters
Occurs(s, text) ==
  \E i \in 1..Len(text) : \E j \in i..Len(text) : SubSeq(text, i, j) = s

Geographic(text) == Occurs(T_longlat, text) \/ Occurs(T_latlong, text)

\* C8: in a successfully built transform that is not the identity,
\* inputDegrees tells whether the source text contains "longlat" or "latlong"
\* and outputDegrees tells the same of the destination text, each side by its
\* own text only.
C8_UnitFlags ==
  (constructed /\ ctErr = Nil /\ ~ct.sameProj) =>
    /\ ct.inputDegrees <=> Geographic(newSrc.proj4)
    /\ ct.outputDegrees <=> Geographic(newDst.proj4)

C8_Witness ==
  /\ constructed
  /\ ctErr = Nil
  /\ ~ct.sameProj
  /\ Occurs(T_latlong, newSrc.proj4)
  /\ ct.inputDegrees
  /\ ~ct.outputDegrees

\* the coordinate a reprojected coordinate came from
Base(p) == [p EXCEPT !.ops = << >>]

SamePts(a, b) ==
  /\ Len(a) = Len(b)
  /\ \A k \in 1..Len(a) : Base(b[k]) = a[k]

SameRings(a, b) ==
  /\ Len(a) = Len(b)
  /\ \A j \in 1..Len(a) : SamePts(a[j], b[j])

SamePolygons(a, b) ==
  /\ Len(a) = Len(b)
  /\ \A i \in 1..Len(a) : SameRings(a[i], b[i])

SameStructure(a, b) ==
  /\ a.type = b.type
  /\ CASE a.type = "Point" -> Base(b.v) = a.v
       [] a.type = "LineString" -> SamePts(a.v, b.v)
       [] a.type \in {"MultiLineString", "Polygon"} -> SameRings(a.v, b.v)
       [] a.type = "MultiPolygon" -> SamePolygons(a.v, b.v)

HandlerOf(type) == "project" \o type

\* C9: a successful reprojection of a geometry of a supported shape through a
\* transform that is not the identity returns a geometry of the same shape,
\* with the same parts, rings and points in the same order, and the
\* dispatcher calls the handler of that shape, once, with the handles and the
\* unit flags of the transform.
C9_ShapePreserved ==
  (rpDone /\ ~ct.sameProj /\ rpOut.err = Nil /\ rpIn.type \in SupportedTypes) =>
    /\ SameStructure(rpIn, rpOut.g)
    /\ rpCalls =
         << DispatchCall(ct),
            HandlerCall(HandlerOf(rpIn.type), ct.src, ct.dst,
                        ct.inputDegrees, ct.outputDegrees) >>

C9_Witness ==
  /\ rpDone
  /\ ~ct.sameProj
  /\ ctErr = Nil
  /\ rpOut.err = Nil
  /\ rpIn.type = "MultiPolygon"
  /\ Len(rpIn.v) = 2
  /\ Len(rpIn.v[1]) = 2
  /\ Len(rpIn.v[1][1]) = 2
  /\ rpOut.g # rpIn

\* the calls of a complete setup, in order
SetupOrder ==
  << [fn |-> "IsSame", side |-> "both"],
     [fn |-> "ToProj4", side |-> "src"],
     [fn |-> "NewProj", side |-> "src"],
     [fn |-> "ToProj4", side |-> "dst"],
     [fn |-> "NewProj", side |-> "dst"] >>

\* what the collaborator returns for the call c, from the arguments alone
ErrOf(c) ==
  LET sr == IF c.side = "src" THEN newSrc ELSE newDst
  IN CASE c.fn = "IsSame" -> Nil
       [] c.fn = "ToProj4" -> sr.toProj4Err
       [] c.fn = "NewProj" -> NewProj(sr.proj4).err

StepFails(c) ==
  \/ c.fn = "ToProj4" /\ c.err # Nil /\ c.err.msg # "No Error"
  \/ c.fn = "NewProj" /\ c.err # Nil

\* C10: for references that are not the same, the calls are made in the order
\* ToProj4(src), NewProj(src), ToProj4(dst), NewProj(dst); the first call that
\* fails is the last call made and its error is the error returned; when no
\* call fails all four are made and the error is nil.
C10_SetupOrder ==
  NonIdentity =>
    LET n == Len(newCalls) IN
    /\ n \in 2..5
    /\ \A i \in 1..n :
         /\ newCalls[i].fn = SetupOrder[i].fn
         /\ newCalls[i].side = SetupOrder[i].side
         /\ newCalls[i].err = ErrOf(newCalls[i])
    /\ \A i \in 1..(n - 1) : ~StepFails(newCalls[i])
    /\ IF StepFails(newCalls[n]) THEN ctErr = newCalls[n].err
       ELSE n = 5 /\ ctErr = Nil

C10_Witness ==
  /\ NonIdentity
  /\ Len(newCalls) = 3
  /\ ctErr # Nil
  /\ ctErr = newCalls[3].err
  /\ IsFatal(newDst.toProj4Err)

====
